---- MODULE Spec2Model ----
(***************************************************************************)
(* setup-nucel: a GitHub Action that installs the Nucel CLI.               *)
(*                                                                         *)
(* The model follows src/src/run.ts (run, cleanup and their helpers) and   *)
(* src/src/index.ts (the entry point of the main and the post step).       *)
(* Text that the code inspects character by character (the version input,  *)
(* the stdout of the version probe, the cache key) is a sequence of        *)
(* one-character strings; file names and path segments are plain strings   *)
(* and a path is the sequence of its segments.                             *)
(***************************************************************************)
EXTENDS Integers, Sequences, FiniteSets, TLC

\* ------------------------------------------------------------------ bounds
\* Number of workflow jobs (each a main step followed by a post step) that
\* use the shared cache store one after the other.
MaxJobs == 2

\* Number of calls of cleanup in a row.
MaxCleanups == 2

\* ------------------------------------------------------------- characters
Digits == {"0", "1", "2", "3", "4", "5", "6", "7", "8", "9"}

Letters == {"a", "b", "c", "d", "e", "f", "g", "h", "i", "j", "k", "l", "m",
            "n", "o", "p", "q", "r", "s", "t", "u", "v", "w", "x", "y", "z",
            "C", "I", "L", "N"}

\* \d of a JavaScript regular expression without the u flag: ASCII digits.
DigitClass == Digits

\* \w of a JavaScript regular expression: [A-Za-z0-9_].
WordClass == Digits \cup Letters \cup {"_"}

\* The character class [\w\.\-] of the prerelease part.
PrereleaseClass == WordClass \cup {".", "-"}

\* String.prototype.trim strips these from both ends.
TrimClass == {" ", "\t", "\n", "\r"}

\* ---------------------------------------------------------------- strings
Latest == <<"l", "a", "t", "e", "s", "t">>

Unknown == <<"u", "n", "k", "n", "o", "w", "n">>

KeyPrefix == <<"n", "u", "c", "e", "l", "-", "c", "l", "i", "-">>

PinnedTag == <<"c", "l", "i", "-", "v", "0", ".", "1", ".", "9">>

TagPrefix == <<"c", "l", "i", "-", "v">>

Dash == <<"-">>

\* The characters of the values process.platform and process.arch can take
\* in the model.
CharsOf(name) ==
  CASE name = "linux"   -> <<"l", "i", "n", "u", "x">>
    [] name = "darwin"  -> <<"d", "a", "r", "w", "i", "n">>
    [] name = "win32"   -> <<"w", "i", "n", "3", "2">>
    [] name = "freebsd" -> <<"f", "r", "e", "e", "b", "s", "d">>
    [] name = "x64"     -> <<"x", "6", "4">>
    [] name = "arm64"   -> <<"a", "r", "m", "6", "4">>
    [] name = ".tar.gz" -> <<".", "t", "a", "r", ".", "g", "z">>
    [] name = ".zip"    -> <<".", "z", "i", "p">>
    [] OTHER            -> <<"u", "n", "d", "e", "f", "i", "n", "e", "d">>

\* ------------------------------------------------------ version validation
\* Length of the longest run of characters of the class cls (a set of
\* characters) that starts at s[i]: what a greedy quantifier consumes.
RECURSIVE RunLength(_, _, _)
RunLength(s, i, cls) ==
  IF i <= Len(s) /\ s[i] \in cls THEN 1 + RunLength(s, i + 1, cls) ELSE 0

\* The test without the anchor $: a match of a prefix is enough.
SemverRegexTest_Unanchored(s) ==
  LET n1 == RunLength(s, 1, DigitClass)
      d1 == 1 + n1
      n2 == RunLength(s, d1 + 1, DigitClass)
      d2 == d1 + 1 + n2
      n3 == RunLength(s, d2 + 1, DigitClass)
  IN  /\ n1 >= 1
      /\ d1 <= Len(s) /\ s[d1] = "."
      /\ n2 >= 1
      /\ d2 <= Len(s) /\ s[d2] = "."
      /\ n3 >= 1

\* /^\d+\.\d+\.\d+(-[\w\.\-]+)?$/.test(s). The classes \d and \. are
\* disjoint, so the greedy match of each \d+ is the only candidate; the
\* optional group, when entered, must reach the end of the input.
SemverRegexTest(s) ==
  LET n1 == RunLength(s, 1, DigitClass)
      d1 == 1 + n1
      n2 == RunLength(s, d1 + 1, DigitClass)
      d2 == d1 + 1 + n2
      n3 == RunLength(s, d2 + 1, DigitClass)
      e3 == d2 + 1 + n3
      np == RunLength(s, e3 + 1, PrereleaseClass)
  IN  /\ n1 >= 1
      /\ d1 <= Len(s) /\ s[d1] = "."
      /\ n2 >= 1
      /\ d2 <= Len(s) /\ s[d2] = "."
      /\ n3 >= 1
      /\ \/ e3 = Len(s) + 1
         \/ /\ e3 <= Len(s) /\ s[e3] = "-"
            /\ np >= 1
            /\ e3 + np = Len(s)

\* The value of the `version` field of the Inputs object: a string, or
\* absent (undefined), or a value of another type.
StringInput(s) == [type |-> "string", s |-> s]

UndefinedInput == [type |-> "undefined", s |-> <<>>]

NumberInput == [type |-> "number", s |-> <<"1">>]

\* !inputs.version || typeof inputs.version !== 'string'
VersionMissing(v) ==
  \/ v.type = "undefined"
  \/ v.type = "string" /\ v.s = <<>>
  \/ v.type # "string"

\* inputs.version !== 'latest' && !regex.test(inputs.version)
VersionMalformed(v) == v.s # Latest /\ ~SemverRegexTest(v.s)

\* "ok", or the error the two guards at the head of run throw.
ValidateVersion(v) ==
  IF VersionMissing(v) THEN "required"
  ELSE IF VersionMalformed(v) THEN "format"
  ELSE "ok"

\* ---------------------------------------------------------------- platform
\* The value a missing property of an object literal evaluates to.
Undefined == "undefined"

SupportedPlatforms == {"linux", "darwin", "win32"}

\* A platformMap that gives every platform the POSIX archive.
PlatformMapExt_AllTar(platform) == ".tar.gz"

\* platformMap[platform]: the archive extension and the executable name.
PlatformMapExt(platform) ==
  CASE platform = "linux"  -> ".tar.gz"
    [] platform = "darwin" -> ".tar.gz"
    [] platform = "win32"  -> ".zip"
    [] OTHER               -> Undefined

PlatformMapBinaryName(platform) ==
  CASE platform = "linux"  -> "nucel"
    [] platform = "darwin" -> "nucel"
    [] platform = "win32"  -> "nucel.exe"
    [] OTHER               -> Undefined

\* getPlatformInfo(): process.platform and process.arch with the entry of
\* platformMap spread over them (spreading undefined adds no property).
GetPlatformInfo(h) ==
  [platform   |-> h.platform,
   arch       |-> h.arch,
   ext        |-> PlatformMapExt(h.platform),
   binaryName |-> PlatformMapBinaryName(h.platform)]

\* A key that leaves the architecture out.
CacheKey_NoArch(version, info) ==
  KeyPrefix \o version \o Dash \o CharsOf(info.platform)

\* `nucel-cli-${inputs.version}-${platform.platform}-${platform.arch}`
CacheKey(version, info) ==
  KeyPrefix \o version \o Dash \o CharsOf(info.platform) \o Dash \o CharsOf(info.arch)

\* getDownloadUrl asking for the release of the name of the version.
VersionTag_Unpinned(version) == TagPrefix \o version

\* getDownloadUrl, line 139: the release tag, pinned for 'latest'.
VersionTag(version) == IF version = Latest THEN PinnedTag ELSE TagPrefix \o version

DownloadFileName(info) ==
  KeyPrefix \o CharsOf(info.platform) \o Dash \o CharsOf(info.arch) \o CharsOf(info.ext)

BaseUrl == "https://github.com/nucel-cloud/nucel/releases/download"

\* `${baseUrl}/${versionTag}/${fileName}`: the base URL as one part, the
\* rest character by character.
GetDownloadUrl(version, info) ==
  <<BaseUrl, "/">> \o VersionTag(version) \o <<"/">> \o DownloadFileName(info)

NoUrl == <<>>

\* ------------------------------------------------------------- file system
\* A path is the sequence of its segments. path.join throws a TypeError on
\* an argument that is not a string.
CachePath == <<"cwd", "nucel-cache">>

ExtractedPath == <<"tmp", "extracted">>

Join(dir, name) == dir \o <<name>>

Dirname(p) == SubSeq(p, 1, Len(p) - 1)

Basename(p) == p[Len(p)]

NoPath == <<>>

\* A directory tree is a sequence of entries in the order readdir lists them
\* (the entries of one directory keep their relative order):
\*   p    the path of the entry below the root of the tree
\*   kind "file" or "dir"
\*   x    fs.access(F_OK | X_OK) succeeds on it
\*   r    readdir succeeds on it (directories)
File(p, x) == [p |-> p, kind |-> "file", x |-> x, r |-> FALSE]

Dir(p, r) == [p |-> p, kind |-> "dir", x |-> TRUE, r |-> r]

IsPrefixOf(d, p) == Len(d) <= Len(p) /\ SubSeq(p, 1, Len(d)) = d

\* fs.access(filePath, F_OK | X_OK) resolves. On Windows X_OK is F_OK.
FileExists(tree, rel, platform) ==
  \E i \in 1..Len(tree) :
    tree[i].p = rel /\ (tree[i].x \/ platform = "win32")

\* The indexes of the entries fs.readdir(dir) returns, in order.
Children(tree, dir) ==
  SelectSeq([i \in 1..Len(tree) |-> i],
            LAMBDA i : Len(tree[i].p) = Len(dir) + 1 /\ IsPrefixOf(dir, tree[i].p))

\* readdir rejects on a directory that cannot be listed. The root of the
\* tree can be listed unless the tree holds an entry that says otherwise
\* (MissingRoot, UnreadableRoot).
Readable(tree, dir) ==
  IF dir = <<>>
  THEN \A i \in 1..Len(tree) : tree[i].p = <<>> => tree[i].r
  ELSE \E i \in 1..Len(tree) : tree[i].p = dir /\ tree[i].kind = "dir" /\ tree[i].r

\* The entry of a root that cannot be listed: the root of a tree that does
\* not exist holds nothing else.
UnreadableRoot == [p |-> <<>>, kind |-> "dir", x |-> TRUE, r |-> FALSE]

MissingRoot == <<[p |-> <<>>, kind |-> "dir", x |-> FALSE, r |-> FALSE]>>

\* findBinaryRecursive: the loop over the entries of dirPath from entry k
\* on; NoPath stands for null.
RECURSIVE FindFrom(_, _, _, _)
FindFrom(tree, dir, k, binaryName) ==
  LET kids == IF Readable(tree, dir) THEN Children(tree, dir) ELSE <<>>
  IN  IF k > Len(kids) THEN NoPath
      ELSE LET e == tree[kids[k]]
           IN  IF e.kind = "file" /\ Basename(e.p) = binaryName THEN e.p
               ELSE LET found == IF e.kind = "dir"
                                 THEN FindFrom(tree, e.p, 1, binaryName)
                                 ELSE NoPath
                    IN  IF found # NoPath THEN found
                        ELSE FindFrom(tree, dir, k + 1, binaryName)

\* What stands for an error that readdir threw.
Thrown == <<"", "thrown">>

\* findBinaryRecursive without its try block: the error of readdir ends
\* the loops of all the callers.
RECURSIVE FindFromNoCatch(_, _, _, _)
FindFromNoCatch(tree, dir, k, binaryName) ==
  IF ~Readable(tree, dir) THEN Thrown
  ELSE LET kids == Children(tree, dir)
       IN  IF k > Len(kids) THEN NoPath
           ELSE LET e == tree[kids[k]]
                IN  IF e.kind = "file" /\ Basename(e.p) = binaryName THEN e.p
                    ELSE LET found == IF e.kind = "dir"
                                      THEN FindFromNoCatch(tree, e.p, 1, binaryName)
                                      ELSE NoPath
                         IN  IF found # NoPath THEN found
                             ELSE FindFromNoCatch(tree, dir, k + 1, binaryName)

\* The error then reaches the catch of findBinaryInDir, which returns null.
FindBinaryRecursive_NoCatch(tree, dir, binaryName) ==
  LET found == FindFromNoCatch(tree, dir, 1, binaryName)
  IN  IF found = Thrown THEN NoPath ELSE found

FindBinaryRecursive(tree, dir, binaryName) == FindFrom(tree, dir, 1, binaryName)

CommonDirs == <<"bin", "cli", "nucel", "nucel-cli">>

\* The first of the common subdirectories that holds the binary, or 0.
RECURSIVE FirstCommonDir(_, _, _, _)
FirstCommonDir(tree, binaryName, platform, k) ==
  IF k > Len(CommonDirs) THEN 0
  ELSE IF FileExists(tree, <<CommonDirs[k], binaryName>>, platform) THEN k
  ELSE FirstCommonDir(tree, binaryName, platform, k + 1)

\* findBinaryInDir without its try block: the TypeError of path.join
\* reaches the caller.
FindBinaryInDirRejects_NoCatch(binaryName) == binaryName = Undefined

\* findBinaryInDir, lines 146 and 166-169: whether the promise rejects.
\* The whole body is inside the try block, whose catch logs a warning and
\* returns null.
FindBinaryInDirRejects(binaryName) == FALSE

\* findBinaryInDir, as a path below the root of the tree (NoPath: null).
\* With binaryName undefined the first path.join throws; the catch logs a
\* warning and returns null.
FindBinaryInDir(tree, binaryName, platform) ==
  IF binaryName = Undefined THEN NoPath
  ELSE IF FileExists(tree, <<binaryName>>, platform) THEN <<binaryName>>
  ELSE LET k == FirstCommonDir(tree, binaryName, platform, 1)
       IN  IF k # 0 THEN <<CommonDirs[k], binaryName>>
           ELSE FindBinaryRecursive(tree, <<>>, binaryName)

\* ------------------------------------------------------------ version probe
\* s without the leading and trailing characters String.prototype.trim
\* strips.
RECURSIVE TrimStart(_)
TrimStart(s) ==
  IF s # <<>> /\ Head(s) \in TrimClass THEN TrimStart(Tail(s)) ELSE s

RECURSIVE TrimEnd(_)
TrimEnd(s) ==
  IF s # <<>> /\ s[Len(s)] \in TrimClass THEN TrimEnd(SubSeq(s, 1, Len(s) - 1)) ELSE s

Trim(s) == TrimEnd(TrimStart(s))

\* s.split(' ').pop(): what follows the last space of s (all of s when it
\* holds no space).
RECURSIVE AfterLastSpace(_, _)
AfterLastSpace(s, i) ==
  IF i = 0 THEN s
  ELSE IF s[i] = " " THEN SubSeq(s, i + 1, Len(s))
  ELSE AfterLastSpace(s, i - 1)

SplitPop(s) == AfterLastSpace(s, Len(s))

\* The result of exec.getExecOutput(nucelPath, ['--version']): it rejects,
\* or resolves to an exit code and the captured stdout.
ProbeThrows == [thrown |-> TRUE, exitCode |-> 1, stdout |-> <<>>]

ProbeResult(code, out) == [thrown |-> FALSE, exitCode |-> code, stdout |-> out]

\* setOutputs without the `|| 'unknown'` of line 257.
ReportedVersion_NoDefault(probe) ==
  IF probe.thrown \/ probe.exitCode # 0 THEN Unknown
  ELSE SplitPop(Trim(probe.stdout))

\* The value setOutputs gives cli-version.
ReportedVersion(probe) ==
  IF probe.thrown \/ probe.exitCode # 0 THEN Unknown
  ELSE LET token == SplitPop(Trim(probe.stdout))
       IN  IF token = <<>> THEN Unknown ELSE token

\* verifyInstallation returning true whenever exec.exec resolves.
VerifyInstallation_AnyExit(outcome) == outcome # "throw"

\* verifyInstallation: exec.exec(path, ['--version'], {ignoreReturnCode})
\* resolves to the exit code or rejects; true exactly on exit code 0.
VerifyInstallation(outcome) == outcome = "exit0"

\* The call verifyInstallation makes: the command, its arguments and how
\* exec.exec ended.
VerifyCall(path, outcome) == [path |-> path, args |-> <<"--version">>, outcome |-> outcome]

NoVerifyCall == [path |-> <<>>, args |-> <<>>, outcome |-> "none"]

\* ---------------------------------------------------------- cache staging
\* The staging directory <cwd>/nucel-cache: whether it exists and the tree
\* below it. An entry of the cache store is the tree saved under a key.
NoStaging == [exists |-> FALSE, tree |-> <<>>]

\* The tree `under` with the entries of `over` written on top of it.
Overlay(under, over) ==
  over \o SelectSeq(under, LAMBDA e : \A i \in 1..Len(over) : over[i].p # e.p)

HasKey(st, key) == \E e \in st : e.key = key

EntryOf(st, key) == CHOOSE e \in st : e.key = key

\* findBinaryInCache(cachePath): the staged binary, or NoPath for null.
\* With binaryName undefined path.join throws; the catch returns null.
FindBinaryInCache(stg, info) ==
  IF info.binaryName = Undefined THEN NoPath
  ELSE IF stg.exists /\ FileExists(stg.tree, <<info.binaryName>>, info.platform)
  THEN Join(CachePath, info.binaryName)
  ELSE NoPath

\* restoreFromCache without the probe: whatever was restored is returned.
RestoreReturn_NoVerify(hit, found, verified) ==
  IF hit /\ found # NoPath THEN found ELSE NoPath

\* What restoreFromCache returns: the staged binary when the restore hit,
\* the binary was found and its probe passed; null (NoPath) otherwise.
RestoreReturn(hit, found, verified) ==
  IF hit /\ found # NoPath /\ verified THEN found ELSE NoPath

\* saveToCache staging the binary under the name of the release asset.
CachedNucelPath_AssetName(nucelPath) == Join(CachePath, "nucel-cli-linux-x64")

\* The file saveToCache writes into the staging directory.
CachedNucelPath(nucelPath) == Join(CachePath, Basename(nucelPath))

\* The x bit of the entry at rel in the tree (FALSE when absent).
ModeOf(tree, rel) ==
  \E i \in 1..Len(tree) : tree[i].p = rel /\ tree[i].x

\* chmod +x on the entry at rel.
Chmod(tree, rel) ==
  [i \in 1..Len(tree) |-> IF tree[i].p = rel THEN [tree[i] EXCEPT !.x = TRUE] ELSE tree[i]]

\* ------------------------------------------------------------------ errors
NoError == <<>>

RequiredError == <<"version input is required and must be a string">>

FormatError == <<"version must be \"latest\" or a valid semantic version (e.g., \"1.0.0\")">>

\* The catch of installNucelCLI rethrowing the error as it caught it.
InstallError_Unwrapped(cause) == cause

\* `Failed to install Nucel CLI: ${error}`
InstallError(cause) == <<"Failed to install Nucel CLI: ">> \o cause

\* The error of line 110 without the directory.
NotFoundCause_NoDir(dir) ==
  <<"Error: ", "Nucel CLI binary not found in extracted directory: ">>

NotFoundCause(dir) ==
  <<"Error: ", "Nucel CLI binary not found in extracted directory: ">> \o dir

VerifyCause == <<"Error: ", "Nucel CLI installation verification failed">>

DownloadCause == <<"Error: ", "download failed">>

ExtractCause == <<"Error: ", "extraction failed">>

ChmodCause == <<"Error: ", "The process 'chmod' failed with exit code 1">>

ResolverCause ==
  <<"TypeError: ", "The \"path\" argument must be of type string. Received undefined">>

\* ------------------------------------------------------------------ inputs
\* Values of the `version` input as the workflow gives it to the entry
\* point (core.getInput returns '' for an input that is not set).
RawVersions ==
  { <<>>,
    <<"1", ".", "2", ".", "3", "-", "r", "c", ".", "1">>,
    <<"n", "o", "t", "-", "a", "-", "v", "e", "r", "s", "i", "o", "n">> }

\* Values of inputs.version when run is called directly, as the tests do.
DirectVersions ==
  { UndefinedInput, NumberInput,
    StringInput(<<>>),
    StringInput(Latest),
    StringInput(<<"i", "n", "v", "a", "l", "i", "d">>),
    StringInput(<<"1", ".", "2">>),
    StringInput(<<"1", ".", "2", ".", "3", "-">>),
    StringInput(<<"v", "1", ".", "2", ".", "3">>),
    StringInput(<<"1", ".", "2", ".", "3", ".", "4">>),
    StringInput(<<"1", ".", "2", ".", "3", "+", "b">>),
    StringInput(<<"1", ".", "2", ".", "3", "\n">>),
    StringInput(<<"l", "a", "t", "e", "s", "t", " ">>) }

\* The entry point handing the input to run as core.getInput returned it.
EntryVersion_NoDefault(raw) == StringInput(raw)

\* core.getInput('version', { required: false }) || 'latest'
EntryVersion(raw) == IF raw = <<>> THEN StringInput(Latest) ELSE StringInput(raw)

\* The version strings that pass validation among the inputs above: the
\* keys under which the cache store can hold an entry.
KeyVersions ==
  { v.s : v \in { w \in DirectVersions \cup { EntryVersion(r) : r \in RawVersions } :
                    ValidateVersion(w) = "ok" } }

\* inputs.token and inputs.installPath of a caller that passes neither
\* (the type Inputs, lines 11-15: both are optional).
NoOptions == [token |-> UndefinedInput, installPath |-> UndefinedInput]

\* index.ts, lines 16-17: core.getInput('token') and
\* core.getInput('install-path') of a workflow that sets neither.
EntryOptions == [token |-> StringInput(<<>>), installPath |-> StringInput(<<>>)]

\* The token and the install path the tests call run with.
TestToken == StringInput(<<"test-token">>)

CustomPath == StringInput(<<"custom", "path">>)

\* The object run receives (the type Inputs, lines 11-15).
RunInputs(version, opts) ==
  [version |-> version, token |-> opts.token, installPath |-> opts.installPath]

\* run logging the token next to the version.
SetupMessage_WithToken(in, info) ==
  <<"Setting up Nucel CLI ">> \o in.version.s
    \o <<" on ", info.platform, "-", info.arch, " with token ">> \o in.token.s

\* run, line 36: `Setting up Nucel CLI ${inputs.version} on
\* ${platform.platform}-${platform.arch}`
SetupMessage(in, info) ==
  <<"Setting up Nucel CLI ">> \o in.version.s \o <<" on ", info.platform, "-", info.arch>>

\* installNucelCLI, lines 88 and 93: `Installing Nucel CLI
\* ${inputs.version}...` and `Downloading from: ${downloadUrl}`
InstallMessages(in, info) ==
  { <<"Installing Nucel CLI ">> \o in.version.s \o <<"...">>,
    <<"Downloading from: ">> \o GetDownloadUrl(in.version.s, info) }

\* The path tc.downloadTool resolves to.
DownloadPath == <<"tmp", "downloaded">>

NoExtractCall == [tool |-> "none", file |-> NoPath, flags |-> <<>>]

\* No earlier call of run is remembered.
NoTwin == [set |-> FALSE, options |-> NoOptions, obs |-> <<>>, ext |-> <<>>]

Platforms == SupportedPlatforms \cup {"freebsd"}

Archs == {"x64", "arm64"}

\* Outcomes of exec.exec(path, ['--version'], { ignoreReturnCode: true }).
ExecOutcomes == {"exit0", "exit1", "throw"}

\* Outcomes of exec.getExecOutput(path, ['--version']).
ProbeOutcomes ==
  { ProbeThrows,
    ProbeResult(1, <<>>),
    ProbeResult(0, <<>>),
    ProbeResult(0, <<"n", "u", "c", "e", "l", " ", "1", ".", "0", ".", "0", "\n">>),
    ProbeResult(0, <<"N", "u", "c", "e", "l", " ", "C", "L", "I", "\t", "1", ".", "0", ".", "0">>) }

\* What an archive can extract to, for the executable name n.
ExtractedTrees(n) ==
  { <<>>,
    <<File(<<n>>, FALSE)>>,
    <<Dir(<<"bin">>, TRUE), File(<<"bin", n>>, TRUE)>> }

\* What a cache entry written by something else than saveToCache can hold
\* under one of this action's keys: the executable, or a file of another
\* name.
ForeignTrees(n) ==
  { <<File(<<n>>, TRUE)>>,
    <<File(<<"nucel-cli-linux-x64">>, TRUE)>> }

NameOrDefault(info) == IF info.binaryName = Undefined THEN "nucel" ELSE info.binaryName

\* ------------------------------------------------------------------- state
VARIABLES
  host,        \* process.platform and process.arch of the runner
  store,       \* the cache service: a set of [key, tree]
  savedKeys,   \* history: the keys saveToCache stored an entry under
  staging,     \* the staging directory <cwd>/nucel-cache
  job,         \* number of jobs started
  phase,       \* "idle", "main", "between", "post" or "direct"
  pc,          \* position of the code that is executing
  rawVersion,  \* the `version` input of the workflow step
  inputs,      \* inputs.version as run received it
  stateIsPost, \* core.saveState('isPost', 'true') has been called
  failed,      \* message given to core.setFailed, NoError when not called
  err,         \* message of the error run rejected with
  outputs,     \* cli-version and cli-path once core.setOutput set them
  pathEnv,     \* directories given to addPath
  called,      \* history: the external calls made by the current run
  verified,    \* history: paths verifyInstallation returned true for
  warnings,    \* kinds of core.warning messages of the current run
  cacheHit,    \* what restoreFromCache returned
  installPath, \* what installNucelCLI returned
  extracted,   \* the tree below the extraction directory
  binaryPath,  \* the path findBinaryInDir returned, below the root
  lastProbe,   \* history: the result of the last getExecOutput
  restoreOutcome, \* history: how restoreCache ended in the current run
  saveOutcome, \* history: where saveToCache stopped in the current run
  failure,     \* history: the step of installNucelCLI that failed
  downloadUrl, \* history: the URL given to tc.downloadTool
  lastVerify,  \* history: the last call of verifyInstallation
  options,     \* inputs.token and inputs.installPath as run received them
  infos,       \* the core.info messages of the current run built from inputs
  twin,        \* history: an earlier call of run to compare this one with
  npmToken,    \* process.env.NPM_TOKEN
  extractCall  \* history: the call of tc.extractZip or tc.extractTar

vars ==
  <<host, store, savedKeys, staging, job, phase, pc, rawVersion, inputs,
    stateIsPost, failed, err, outputs, pathEnv, called, verified, warnings,
    cacheHit, installPath, extracted, binaryPath, lastProbe, restoreOutcome,
    saveOutcome, failure, downloadUrl, lastVerify, options, infos, twin,
    npmToken, extractCall>>

\* The history of the external outcomes of the current run.
outcomes == <<restoreOutcome, saveOutcome, failure>>

NoOutputs == [set |-> FALSE, version |-> <<>>, path |-> NoPath]

Info == GetPlatformInfo(host)

Key == CacheKey(inputs.s, Info)

Init ==
  /\ host \in [platform : Platforms, arch : Archs]
  /\ store \in
       {{}} \cup
       { { [key |-> CacheKey(v, GetPlatformInfo(host)), tree |-> t] : v \in KeyVersions } :
           t \in ForeignTrees(NameOrDefault(GetPlatformInfo(host))) }
  /\ savedKeys = {}
  /\ staging = NoStaging
  /\ job = 0
  /\ phase = "idle"
  /\ pc = "idle"
  /\ rawVersion = <<>>
  /\ inputs = UndefinedInput
  /\ stateIsPost = FALSE
  /\ failed = NoError
  /\ err = NoError
  /\ outputs = NoOutputs
  /\ pathEnv = {}
  /\ called = {}
  /\ verified = {}
  /\ warnings = {}
  /\ cacheHit = NoPath
  /\ installPath = NoPath
  /\ extracted = <<>>
  /\ binaryPath = NoPath
  /\ lastProbe = ProbeThrows
  /\ restoreOutcome = "none"
  /\ saveOutcome = "none"
  /\ failure = "none"
  /\ downloadUrl = NoUrl
  /\ lastVerify = NoVerifyCall
  /\ options = NoOptions
  /\ infos = {}
  /\ extractCall = NoExtractCall
  /\ twin = NoTwin
  /\ npmToken = UndefinedInput

\* The state a call of run starts from: nothing called, nothing returned.
BeginRun(v) ==
  /\ inputs' = v
  /\ pc' = "validate"
  /\ err' = NoError
  /\ called' = {}
  /\ verified' = {}
  /\ warnings' = {}
  /\ cacheHit' = NoPath
  /\ installPath' = NoPath
  /\ extracted' = <<>>
  /\ binaryPath' = NoPath
  /\ lastProbe' = ProbeThrows
  /\ restoreOutcome' = "none"
  /\ saveOutcome' = "none"
  /\ failure' = "none"
  /\ downloadUrl' = NoUrl
  /\ lastVerify' = NoVerifyCall
  /\ infos' = {}
  /\ extractCall' = NoExtractCall

\* No call of run: the variables of a run hold their initial values.
NoRun ==
  /\ inputs' = UndefinedInput
  /\ pc' = "idle"
  /\ err' = NoError
  /\ called' = {}
  /\ verified' = {}
  /\ warnings' = {}
  /\ cacheHit' = NoPath
  /\ installPath' = NoPath
  /\ extracted' = <<>>
  /\ binaryPath' = NoPath
  /\ lastProbe' = ProbeThrows
  /\ restoreOutcome' = "none"
  /\ saveOutcome' = "none"
  /\ failure' = "none"
  /\ downloadUrl' = NoUrl
  /\ lastVerify' = NoVerifyCall
  /\ infos' = {}
  /\ extractCall' = NoExtractCall
  /\ options' = NoOptions

\* -------------------------------------------------------------- run (steps)
\* run, lines 25-31: the two guards on inputs.version.
Validate ==
  /\ pc = "validate"
  /\ LET r == ValidateVersion(inputs)
     IN  /\ pc' = IF r = "ok" THEN "restore" ELSE "threw"
         /\ err' = CASE r = "required" -> RequiredError
                     [] r = "format"   -> FormatError
                     [] OTHER          -> NoError
  /\ UNCHANGED <<extractCall, npmToken, twin, options, infos, lastVerify, downloadUrl, host, store, savedKeys, staging, job, phase, rawVersion, inputs,
                 stateIsPost, failed, outputs, pathEnv, called, verified, warnings,
                 cacheHit, installPath, extracted, binaryPath, lastProbe, outcomes>>

\* run going on to the installation whatever restoreFromCache returned.
AfterRestore_AlwaysInstall(hit) == "download"

\* run reporting whatever restoreFromCache returned.
AfterRestore_AlwaysReport(hit) == "report"

\* run starting the extraction of an archive it has not downloaded.
AfterRestore_SkipDownload(hit) == IF hit # NoPath THEN "report" ELSE "extract"

\* run, lines 38-45: a restored binary is reported, anything else installs.
AfterRestore(hit) == IF hit # NoPath THEN "report" ELSE "download"

\* The outcomes of cache.restoreCache([cachePath], key): it rejects, it
\* resolves to undefined (a miss), or it restores the entry of the key.
RestoreOutcomes(st, key) ==
  {"throw", "miss"} \cup (IF HasKey(st, key) THEN {"hit"} ELSE {})

\* The staging directory after restoreCache.
Restored(stg, st, key, outcome) ==
  IF outcome = "hit"
  THEN [exists |-> TRUE, tree |-> Overlay(stg.tree, EntryOf(st, key).tree)]
  ELSE stg

\* restoreFromCache with an empty catch block.
RestoreWarnings_Silent(outcome, info) ==
  IF outcome = "hit" /\ info.binaryName = Undefined
  THEN {"Error finding binary in cache"} ELSE {}

\* The warnings restoreFromCache logs.
RestoreWarnings(outcome, info) ==
  (IF outcome = "throw" THEN {"Cache restore failed"} ELSE {})
  \cup (IF outcome = "hit" /\ info.binaryName = Undefined
        THEN {"Error finding binary in cache"} ELSE {})

\* run, lines 33-43, with restoreFromCache (lines 69-85).
RestoreFromCache ==
  /\ pc = "restore"
  /\ \E outcome \in RestoreOutcomes(store, Key), probe \in ExecOutcomes :
       LET stg   == Restored(staging, store, Key, outcome)
           found == IF outcome = "hit" THEN FindBinaryInCache(stg, Info) ELSE NoPath
           ok    == found # NoPath /\ VerifyInstallation(probe)
           ret   == RestoreReturn(outcome = "hit", found, VerifyInstallation(probe))
       IN  /\ staging' = stg
           /\ restoreOutcome' = outcome
           /\ called' = called \cup {"restoreCache"}
                         \cup (IF found # NoPath THEN {"verify"} ELSE {})
           /\ verified' = verified \cup (IF ok THEN {found} ELSE {})
           /\ lastVerify' = IF found # NoPath THEN VerifyCall(found, probe) ELSE lastVerify
           /\ warnings' = warnings \cup RestoreWarnings(outcome, Info)
           /\ infos' = infos \cup {SetupMessage(RunInputs(inputs, options), Info)}
           /\ cacheHit' = ret
           /\ pc' = AfterRestore(ret)
  /\ UNCHANGED <<extractCall, npmToken, twin, options, downloadUrl, host, store, savedKeys, job, phase, rawVersion, inputs, stateIsPost,
                 failed, err, outputs, pathEnv, installPath, extracted, binaryPath,
                 lastProbe, saveOutcome, failure>>

\* String(error) of the error a failed step of installNucelCLI throws.
CauseOf(step) ==
  CASE step = "download" -> DownloadCause
    [] step = "extract"  -> ExtractCause
    [] step = "notfound" -> NotFoundCause(ExtractedPath)
    [] step = "chmod"    -> ChmodCause
    [] step = "resolver" -> ResolverCause
    [] OTHER             -> VerifyCause

\* installNucelCLI downloading again when the probe of the binary fails.
Rejects_RetryAfterVerify(step) ==
  /\ failure' = step
  /\ err' = IF step = "verify" THEN err ELSE InstallError(CauseOf(step))
  /\ pc' = IF step = "verify" THEN "download" ELSE "threw"

\* installNucelCLI, the catch of line 132: every error of the try block is
\* rethrown wrapped.
Rejects(step) ==
  /\ failure' = step
  /\ err' = InstallError(CauseOf(step))
  /\ pc' = "threw"

Proceeds(next) ==
  /\ failure' = failure
  /\ err' = err
  /\ pc' = next

\* installNucelCLI, lines 88-96: tc.downloadTool(downloadUrl).
Download ==
  /\ pc = "download"
  /\ called' = called \cup {"downloadTool"}
  /\ downloadUrl' = GetDownloadUrl(inputs.s, Info)
  /\ infos' = infos \cup InstallMessages(RunInputs(inputs, options), Info)
  /\ \/ Proceeds("extract")
     \/ Rejects("download")
  /\ UNCHANGED <<extractCall, npmToken, twin, options, lastVerify, host, store, savedKeys, staging, job, phase, rawVersion, inputs,
                 stateIsPost, failed, outputs, pathEnv, verified, warnings, cacheHit,
                 installPath, extracted, binaryPath, lastProbe, restoreOutcome,
                 saveOutcome>>

\* installNucelCLI extracting every archive with tar.
Extractor_AlwaysTar(info) == "extractTar"

\* installNucelCLI, lines 99-104: the extractor the archive extension picks.
Extractor(info) == IF info.ext = ".zip" THEN "extractZip" ELSE "extractTar"

\* tc.extractZip(downloadPath) or tc.extractTar(downloadPath, undefined, 'xz')
ExtractCall(info, file) ==
  [tool  |-> Extractor(info),
   file  |-> file,
   flags |-> IF info.ext = ".zip" THEN <<>> ELSE <<"xz">>]

Extract ==
  /\ pc = "extract"
  /\ called' = called \cup {ExtractCall(Info, DownloadPath).tool}
  /\ extractCall' = ExtractCall(Info, DownloadPath)
  /\ \/ /\ \E t \in ExtractedTrees(NameOrDefault(Info)) : extracted' = t
        /\ Proceeds("resolve")
     \/ /\ Rejects("extract")
        /\ extracted' = extracted
  /\ UNCHANGED <<npmToken, twin, options, infos, lastVerify, downloadUrl, host, store, savedKeys, staging, job, phase, rawVersion, inputs,
                 stateIsPost, failed, outputs, pathEnv, verified, warnings, cacheHit,
                 installPath, binaryPath, lastProbe, restoreOutcome, saveOutcome>>

\* installNucelCLI, lines 113-117: chmod +x everywhere but on Windows.
NeedsChmod(info) == info.platform # "win32"

\* installNucelCLI, lines 107-111: findBinaryInDir on the extraction root.
Resolve ==
  /\ pc = "resolve"
  /\ called' = called \cup {"findBinaryInDir"}
  /\ LET found == FindBinaryInDir(extracted, Info.binaryName, Info.platform)
     IN  IF FindBinaryInDirRejects(Info.binaryName)
         THEN /\ Rejects("resolver")
              /\ binaryPath' = binaryPath
              /\ warnings' = warnings
         ELSE IF found = NoPath
         THEN /\ Rejects("notfound")
              /\ binaryPath' = binaryPath
              /\ warnings' = warnings
                   \cup (IF Info.binaryName = Undefined
                         THEN {"Error finding binary in directory"} ELSE {})
         ELSE /\ binaryPath' = ExtractedPath \o found
              /\ Proceeds(IF NeedsChmod(Info) THEN "chmod" ELSE "verify")
              /\ warnings' = warnings
  /\ UNCHANGED <<extractCall, npmToken, twin, options, infos, lastVerify, downloadUrl, host, store, savedKeys, staging, job, phase, rawVersion, inputs,
                 stateIsPost, failed, outputs, pathEnv, verified, cacheHit,
                 installPath, extracted, lastProbe, restoreOutcome, saveOutcome>>

\* The path of an entry of the extracted tree, below the extraction root.
Below(full) == SubSeq(full, Len(ExtractedPath) + 1, Len(full))

\* installNucelCLI, lines 114-117: exec.exec('chmod', ['+x', binaryPath])
\* rejects on a non-zero exit code.
MakeExecutable ==
  /\ pc = "chmod"
  /\ called' = called \cup {"chmod"}
  /\ \/ /\ extracted' = Chmod(extracted, Below(binaryPath))
        /\ Proceeds("verify")
     \/ /\ Rejects("chmod")
        /\ extracted' = extracted
  /\ UNCHANGED <<extractCall, npmToken, twin, options, infos, lastVerify, downloadUrl, host, store, savedKeys, staging, job, phase, rawVersion, inputs,
                 stateIsPost, failed, outputs, pathEnv, verified, warnings, cacheHit,
                 installPath, binaryPath, lastProbe, restoreOutcome, saveOutcome>>

\* installNucelCLI adding the directory the caller asked for to PATH.
BinaryDir_Custom(path) ==
  IF options.installPath.s # <<>> THEN options.installPath.s ELSE Dirname(path)

\* installNucelCLI, line 125: path.dirname(binaryPath)
BinaryDir(path) == Dirname(path)

\* installNucelCLI, lines 119-130: the probe, addPath and the return.
VerifyInstalled ==
  /\ pc = "verify"
  /\ \E probe \in ExecOutcomes :
       /\ lastVerify' = VerifyCall(binaryPath, probe)
       /\ IF VerifyInstallation(probe)
          THEN /\ verified' = verified \cup {binaryPath}
               /\ pathEnv' = pathEnv \cup {BinaryDir(binaryPath)}
               /\ called' = called \cup {"verify", "addPath"}
               /\ installPath' = binaryPath
               /\ Proceeds("save")
          ELSE /\ Rejects("verify")
               /\ called' = called \cup {"verify"}
               /\ UNCHANGED <<verified, pathEnv, installPath>>
  /\ UNCHANGED <<extractCall, npmToken, twin, options, infos, downloadUrl, host, store, savedKeys, staging, job, phase, rawVersion, inputs,
                 stateIsPost, failed, outputs, warnings, cacheHit, extracted,
                 binaryPath, lastProbe, restoreOutcome, saveOutcome>>

\* saveToCache: where its try block stops. "ok" runs it to the end, the
\* other values name the call that throws.
SaveOutcomes == {"mkdir", "copyFile", "saveCache", "ok"}

\* The calls saveToCache makes before it stops.
SaveCalls(outcome) ==
  CASE outcome = "mkdir"    -> {"mkdir"}
    [] outcome = "copyFile" -> {"mkdir", "copyFile"}
    [] OTHER                -> {"mkdir", "copyFile", "saveCache"}

\* The staging directory after fs.mkdir and fs.copyFile: the copy keeps
\* the mode of its source.
Staged(stg, tree, nucelPath, outcome) ==
  CASE outcome = "mkdir"    -> stg
    [] outcome = "copyFile" -> [exists |-> TRUE, tree |-> stg.tree]
    [] OTHER                ->
         [exists |-> TRUE,
          tree   |-> Overlay(stg.tree,
                             <<File(<<Basename(CachedNucelPath(nucelPath))>>,
                                    ModeOf(tree, Below(nucelPath)))>>)]

\* The cache service after cache.saveCache([cachePath], key): an entry,
\* once stored under a key, is never replaced.
Saved(st, key, stg, outcome) ==
  IF outcome = "ok" /\ ~HasKey(st, key)
  THEN st \cup {[key |-> key, tree |-> stg.tree]}
  ELSE st

\* saveToCache rethrowing what it caught.
AfterSave_Rethrow(outcome) == IF outcome = "ok" THEN "report" ELSE "threw"

\* saveToCache, the catch of line 246: a failure is logged, never rethrown.
AfterSave(outcome) == "report"

\* run, line 47, with saveToCache (lines 236-249).
SaveToCache ==
  /\ pc = "save"
  /\ \E outcome \in SaveOutcomes :
       LET stg == Staged(staging, extracted, installPath, outcome)
       IN  /\ staging' = stg
           /\ saveOutcome' = outcome
           /\ store' = Saved(store, Key, stg, outcome)
           /\ savedKeys' = savedKeys
                \cup (IF outcome = "ok" /\ ~HasKey(store, Key) THEN {Key} ELSE {})
           /\ called' = called \cup SaveCalls(outcome)
           /\ warnings' = warnings
                \cup (IF outcome # "ok" THEN {"Failed to cache Nucel CLI"} ELSE {})
           /\ pc' = AfterSave(outcome)
  /\ UNCHANGED <<extractCall, npmToken, twin, options, infos, lastVerify, downloadUrl, host, job, phase, rawVersion, inputs, stateIsPost, failed, err,
                 outputs, pathEnv, verified, cacheHit, installPath, extracted,
                 binaryPath, lastProbe, restoreOutcome, failure>>

\* The path run hands to setOutputs (lines 41 and 49).
ReportedPath(hit, installed) == IF hit # NoPath THEN hit ELSE installed

\* setOutputs without its try block: the error of getExecOutput reaches
\* the caller of run.
AfterReport_Rethrow(probe) == IF probe.thrown THEN "threw" ELSE "returned"

\* setOutputs, lines 253-260: an error of getExecOutput is caught and
\* logged; run returns after the outputs are set.
AfterReport(probe) == "returned"

\* run, lines 41 and 49, with setOutputs (lines 251-268).
SetOutputs ==
  /\ pc = "report"
  /\ \E probe \in ProbeOutcomes :
       /\ lastProbe' = probe
       /\ outputs' = [set     |-> TRUE,
                      version |-> ReportedVersion(probe),
                      path    |-> ReportedPath(cacheHit, installPath)]
       /\ warnings' = warnings
            \cup (IF probe.thrown THEN {"Could not determine Nucel CLI version"} ELSE {})
       /\ pc' = AfterReport(probe)
  /\ called' = called \cup {"getExecOutput", "setOutput"}
  /\ UNCHANGED <<extractCall, npmToken, twin, options, infos, lastVerify, downloadUrl, host, store, savedKeys, staging, job, phase, rawVersion, inputs,
                 stateIsPost, failed, err, pathEnv, verified, cacheHit, installPath,
                 extracted, binaryPath, outcomes>>

\* fs.rm without the option force: a path that does not exist is an error.
RmOutcomes_NoForce(stg) == IF stg.exists THEN {"ok", "fail"} ELSE {"fail"}

\* How fs.rm(cachePath, { recursive: true, force: true }) ends: the
\* removal of a directory that exists can fail; with force a path that does
\* not exist is no error.
RmOutcomes(stg) == IF stg.exists THEN {"ok", "fail"} ELSE {"ok"}

RmCause == <<"Error: ", "Cleanup failed">>

\* cleanup without its try block: the error of fs.rm reaches the caller.
CleanupRejects_NoCatch(outcome) == outcome = "fail"

\* cleanup, lines 273 and 277-279: whether the promise rejects. fs.rm is
\* inside the try block, whose catch logs a warning.
CleanupRejects(outcome) == FALSE

\* The catch of index.ts dropping the error.
SetFailed_Swallowed(e) == <<>>

\* index.ts, lines 25-28: core.setFailed(e instanceof Error ? e : String(e))
\* sets the status of the action to failed with the message of e.
SetFailed(e) == e

\* The staging directory after fs.rm.
Removed(stg, outcome) == IF outcome = "ok" THEN NoStaging ELSE stg

\* index.ts, lines 8-10 and 25-28, with cleanup (lines 270-280): the post
\* invocation calls cleanup and gives an error it throws to
\* core.setFailed.
Cleanup ==
  /\ pc = "cleanup"
  /\ \E outcome \in RmOutcomes(staging) :
       /\ staging' = Removed(staging, outcome)
       /\ warnings' = warnings
            \cup (IF outcome = "fail" /\ ~CleanupRejects(outcome)
                  THEN {"Cleanup failed"} ELSE {})
       /\ failed' = IF CleanupRejects(outcome) THEN SetFailed(RmCause) ELSE failed
  /\ called' = called \cup {"rm"}
  /\ pc' = "idle"
  /\ phase' = "idle"
  /\ UNCHANGED <<extractCall, npmToken, twin, options, infos, lastVerify, downloadUrl, host, store, savedKeys, job, rawVersion, inputs,
                 stateIsPost, err, outputs, pathEnv, verified, cacheHit, installPath,
                 extracted, binaryPath, lastProbe, outcomes>>

\* ------------------------------------------------------------- entry point
ContextError == <<"GITHUB_SHA is required">>

\* What follows an invocation of the entry point: the post step after the
\* main step, the end of the job after the post step.
NextPhase(ph) == IF ph = "main" THEN "between" ELSE "idle"

\* index.ts, lines 11-20 and 25-28, in the invocation `ph`: getContext() is
\* evaluated before run is called; it throws when the environment lacks a
\* variable, and the catch gives the error to core.setFailed.
InvokeRun(ph, raw, status) ==
  \/ /\ BeginRun(EntryVersion(raw))
     /\ options' = EntryOptions
     /\ phase' = ph
     /\ failed' = status
  \/ /\ NoRun
     /\ phase' = NextPhase(ph)
     /\ failed' = SetFailed(ContextError)

\* A job starts: the main step runs index.ts in a fresh environment, in
\* which no state has been saved (STATE_isPost is not set).
MainStep ==
  /\ phase = "idle"
  /\ job < MaxJobs
  /\ job' = job + 1
  /\ stateIsPost' = FALSE
  /\ outputs' = NoOutputs
  /\ pathEnv' = {}
  /\ \E raw \in RawVersions :
       /\ rawVersion' = raw
       /\ InvokeRun("main", raw, NoError)
  /\ UNCHANGED <<npmToken, twin, host, store, savedKeys, staging>>

\* The entry point saving the state however run settled.
SaveState_Always(saved, settled) == TRUE

\* index.ts, lines 13-23: core.saveState('isPost', 'true') follows the
\* awaited call of run, so it is reached only when run resolved.
SaveState(saved, settled) == saved \/ settled = "returned"

\* index.ts, line 23: run resolved, the state isPost is saved.
IndexReturn ==
  /\ phase \in {"main", "post"}
  /\ pc = "returned"
  /\ stateIsPost' = SaveState(stateIsPost, pc)
  /\ phase' = NextPhase(phase)
  /\ pc' = "idle"
  /\ UNCHANGED <<extractCall, npmToken, twin, options, infos, lastVerify, downloadUrl, host, store, savedKeys, staging, job, rawVersion, inputs, failed,
                 err, outputs, pathEnv, called, verified, warnings, cacheHit,
                 installPath, extracted, binaryPath, lastProbe, outcomes>>

\* index.ts, lines 25-28: run rejected, core.setFailed gets the error.
IndexCatch ==
  /\ phase \in {"main", "post"}
  /\ pc = "threw"
  /\ failed' = SetFailed(err)
  /\ stateIsPost' = SaveState(stateIsPost, pc)
  /\ phase' = NextPhase(phase)
  /\ pc' = "idle"
  /\ UNCHANGED <<extractCall, npmToken, twin, options, infos, lastVerify, downloadUrl, host, store, savedKeys, staging, job, rawVersion, inputs,
                 err, outputs, pathEnv, called, verified, warnings,
                 cacheHit, installPath, extracted, binaryPath, lastProbe, outcomes>>

\* The post step of the job runs index.ts again: isPost is true exactly
\* when the main step saved the state (index.ts, lines 5-10).
PostStep ==
  /\ phase = "between"
  /\ IF stateIsPost
     THEN /\ pc' = "cleanup"
          /\ phase' = "post"
          /\ UNCHANGED <<extractCall, options, infos, lastVerify, downloadUrl, inputs, failed, err, called, verified, warnings, cacheHit,
                         installPath, extracted, binaryPath, lastProbe, outcomes>>
     ELSE InvokeRun("post", rawVersion, failed)
  /\ UNCHANGED <<npmToken, twin, host, store, savedKeys, staging, job, rawVersion, stateIsPost,
                 outputs, pathEnv>>

\* run called by another caller than the entry point (the tests call it
\* with an Inputs object of their own), in a fresh environment.
DirectCall ==
  /\ phase = "idle"
  /\ job < MaxJobs
  /\ job' = job + 1
  /\ phase' = "direct"
  /\ stateIsPost' = FALSE
  /\ failed' = NoError
  /\ outputs' = NoOutputs
  /\ pathEnv' = {}
  /\ rawVersion' = <<>>
  /\ \E v \in DirectVersions : BeginRun(v)
  /\ options' = NoOptions
  /\ UNCHANGED <<npmToken, twin, host, store, savedKeys, staging>>

\* The promise of a direct call settles and its caller goes on.
DirectEnd ==
  /\ phase = "direct"
  /\ pc \in {"returned", "threw"}
  /\ phase' = "idle"
  /\ pc' = "idle"
  /\ UNCHANGED <<extractCall, npmToken, twin, options, infos, lastVerify, downloadUrl, host, store, savedKeys, staging, job, rawVersion, inputs,
                 stateIsPost, failed, err, outputs, pathEnv, called, verified,
                 warnings, cacheHit, installPath, extracted, binaryPath, lastProbe,
                 outcomes>>

Next ==
  \/ MainStep
  \/ DirectCall
  \/ Validate
  \/ RestoreFromCache
  \/ Download
  \/ Extract
  \/ Resolve
  \/ MakeExecutable
  \/ VerifyInstalled
  \/ SaveToCache
  \/ SetOutputs
  \/ IndexReturn
  \/ IndexCatch
  \/ PostStep
  \/ Cleanup
  \/ DirectEnd

Spec == Init /\ [][Next]_vars

\* ------------------------------------------------- the cache key of a run
\* Versions that pass validation and whose prerelease part holds '-', the
\* name of an operating system or the name of an architecture.
KeySamples ==
  { Latest,
    <<"1", ".", "0", ".", "0">>,
    <<"1", ".", "0", ".", "0", "-", "x", "6", "4">>,
    <<"1", ".", "0", ".", "0", "-", "l", "i", "n", "u", "x">>,
    <<"1", ".", "0", ".", "0", "-", "l", "i", "n", "u", "x", "-", "x", "6", "4">>,
    <<"1", ".", "0", ".", "0", "-", "a", "r", "m", "6", "4", "-", "l", "i", "n", "u", "x">> }

Hosts == [platform : Platforms, arch : Archs]

\* The variables of a call of run that has made no step yet, in an
\* environment in which nothing has been saved.
FreshRun ==
  /\ savedKeys = {}
  /\ staging = NoStaging
  /\ rawVersion = <<>>
  /\ stateIsPost = FALSE
  /\ failed = NoError
  /\ err = NoError
  /\ outputs = NoOutputs
  /\ pathEnv = {}
  /\ called = {}
  /\ verified = {}
  /\ warnings = {}
  /\ cacheHit = NoPath
  /\ installPath = NoPath
  /\ extracted = <<>>
  /\ binaryPath = NoPath
  /\ lastProbe = ProbeThrows
  /\ restoreOutcome = "none"
  /\ saveOutcome = "none"
  /\ failure = "none"
  /\ downloadUrl = NoUrl
  /\ lastVerify = NoVerifyCall
  /\ infos = {}
  /\ extractCall = NoExtractCall

\* run called on any runner with any of the sampled versions; the cache
\* service is empty or holds an entry for every version on every runner.
KeyInit ==
  /\ host \in Hosts
  /\ inputs \in { StringInput(v) : v \in KeySamples }
  /\ store \in
       { {},
         { [key |-> CacheKey(v, GetPlatformInfo(h)), tree |-> <<File(<<"nucel">>, TRUE)>>] :
             v \in KeySamples, h \in Hosts } }
  /\ job = 1
  /\ phase = "direct"
  /\ pc = "validate"
  /\ FreshRun
  /\ options = NoOptions
  /\ twin = NoTwin
  /\ npmToken = UndefinedInput

\* run up to the return of restoreFromCache.
KeyNext ==
  \/ Validate
  \/ RestoreFromCache

KeySpec == KeyInit /\ [][KeyNext]_vars

\* ------------------------------------------------- cleanup called in a row
\* What a main step can leave in <cwd>/nucel-cache: nothing (the directory
\* was never created), an empty directory, or the staged binary.
StagingSamples(n) ==
  { NoStaging,
    [exists |-> TRUE, tree |-> <<>>],
    [exists |-> TRUE, tree |-> <<File(<<n>>, TRUE)>>],
    [exists |-> TRUE, tree |-> <<File(<<n>>, FALSE)>>] }

\* A job whose main step has returned and saved the state isPost.
CleanupInit ==
  /\ host \in Hosts
  /\ staging \in StagingSamples(NameOrDefault(Info))
  /\ store = {}
  /\ savedKeys = {}
  /\ job = 0
  /\ phase = "between"
  /\ pc = "idle"
  /\ rawVersion = <<>>
  /\ inputs = StringInput(Latest)
  /\ stateIsPost = TRUE
  /\ failed = NoError
  /\ err = NoError
  /\ outputs = NoOutputs
  /\ pathEnv = {}
  /\ called = {}
  /\ verified = {}
  /\ warnings = {}
  /\ cacheHit = NoPath
  /\ installPath = NoPath
  /\ extracted = <<>>
  /\ binaryPath = NoPath
  /\ lastProbe = ProbeThrows
  /\ restoreOutcome = "none"
  /\ saveOutcome = "none"
  /\ failure = "none"
  /\ downloadUrl = NoUrl
  /\ lastVerify = NoVerifyCall
  /\ options = NoOptions
  /\ infos = {}
  /\ extractCall = NoExtractCall
  /\ twin = NoTwin
  /\ npmToken = UndefinedInput

\* index.ts invoked with STATE_isPost set (lines 5-10): cleanup is called;
\* the log of the invocation starts empty.
CleanupCall ==
  /\ pc = "idle"
  /\ stateIsPost
  /\ job < MaxCleanups
  /\ job' = job + 1
  /\ phase' = "post"
  /\ pc' = "cleanup"
  /\ called' = {}
  /\ warnings' = {}
  /\ UNCHANGED <<extractCall, npmToken, twin, options, infos, host, store, savedKeys, staging, rawVersion, inputs, stateIsPost,
                 failed, err, outputs, pathEnv, verified, cacheHit, installPath,
                 extracted, binaryPath, lastProbe, outcomes, downloadUrl, lastVerify>>

CleanupNext ==
  \/ CleanupCall
  \/ Cleanup

CleanupSpec == CleanupInit /\ [][CleanupNext]_vars

\* ------------------------------------------- the resolver on any directory
\* An archive that holds the binary under the name of the release asset.
AssetAtRoot == <<File(<<"nucel-cli-linux-x64">>, TRUE)>>

\* Extraction roots for the executable name n: a root that is missing or
\* empty, trees without the binary, the binary at the root, in the common
\* subdirectories, nested, without the x bit, below a directory that
\* cannot be listed, and a directory of the name of the binary (holding
\* the binary with or without the x bit).
ResolverTrees(n) ==
  { MissingRoot,
    <<>>,
    <<File(<<"README">>, FALSE)>>,
    <<Dir(<<"bin">>, TRUE), File(<<"bin", "README">>, FALSE)>>,
    <<File(<<n>>, TRUE)>>,
    <<File(<<n>>, FALSE)>>,
    <<UnreadableRoot, File(<<n>>, TRUE)>>,
    <<File(<<n>>, TRUE), Dir(<<"bin">>, TRUE), File(<<"bin", n>>, TRUE)>>,
    <<File(<<n>>, FALSE), Dir(<<"bin">>, TRUE), File(<<"bin", n>>, TRUE)>>,
    <<Dir(<<"cli">>, TRUE), File(<<"cli", n>>, TRUE),
      Dir(<<"bin">>, TRUE), File(<<"bin", n>>, TRUE)>>,
    <<Dir(<<"lib">>, TRUE), File(<<"lib", n>>, TRUE),
      Dir(<<"nucel-cli">>, TRUE), File(<<"nucel-cli", n>>, TRUE)>>,
    <<Dir(<<"nucel">>, TRUE), File(<<"nucel", n>>, TRUE)>>,
    <<Dir(<<"pkg">>, TRUE), Dir(<<"pkg", "dist">>, TRUE), File(<<"pkg", "dist", n>>, TRUE)>>,
    <<Dir(<<"pkg">>, TRUE), Dir(<<"pkg", "dist">>, TRUE), File(<<"pkg", "dist", n>>, FALSE)>>,
    <<Dir(<<"pkg">>, FALSE), File(<<"pkg", n>>, TRUE)>>,
    <<Dir(<<"pkg">>, FALSE), File(<<"pkg", n>>, TRUE),
      Dir(<<"usr">>, TRUE), File(<<"usr", n>>, TRUE)>>,
    <<Dir(<<n>>, TRUE), File(<<n, n>>, TRUE)>>,
    <<Dir(<<n>>, TRUE), File(<<n, "README">>, FALSE)>>,
    <<Dir(<<n>>, TRUE), File(<<n, n>>, FALSE)>>,
    AssetAtRoot }

\* installNucelCLI about to call findBinaryInDir: 'latest' was not in the
\* cache, the download and the extraction succeeded.
ResolverInit ==
  /\ host \in Hosts
  /\ inputs = StringInput(Latest)
  /\ store = {}
  /\ job = 1
  /\ phase = "direct"
  /\ pc = "resolve"
  /\ extracted \in ResolverTrees(NameOrDefault(Info))
  /\ called = {"restoreCache", "downloadTool", Extractor(Info)}
  /\ restoreOutcome = "miss"
  /\ downloadUrl = GetDownloadUrl(Latest, Info)
  /\ lastVerify = NoVerifyCall
  /\ options = NoOptions
  /\ twin = NoTwin
  /\ extractCall = ExtractCall(Info, DownloadPath)
  /\ npmToken = UndefinedInput
  /\ infos = { SetupMessage(RunInputs(StringInput(Latest), NoOptions), Info) }
               \cup InstallMessages(RunInputs(StringInput(Latest), NoOptions), Info)
  /\ savedKeys = {}
  /\ staging = NoStaging
  /\ rawVersion = <<>>
  /\ stateIsPost = FALSE
  /\ failed = NoError
  /\ err = NoError
  /\ outputs = NoOutputs
  /\ pathEnv = {}
  /\ verified = {}
  /\ warnings = {}
  /\ cacheHit = NoPath
  /\ installPath = NoPath
  /\ binaryPath = NoPath
  /\ lastProbe = ProbeThrows
  /\ saveOutcome = "none"
  /\ failure = "none"

\* installNucelCLI from findBinaryInDir to its return.
ResolverNext ==
  \/ Resolve
  \/ MakeExecutable
  \/ VerifyInstalled

ResolverSpec == ResolverInit /\ [][ResolverNext]_vars

\* ------------------------------------------- two calls with other options
\* What a call of run shows: how it settled, the error, the outputs, PATH,
\* the messages, the calls it made with their arguments, the cache.
Observation ==
  <<pc, err, outputs, pathEnv, infos, warnings, called, downloadUrl,
    lastVerify.path, lastVerify.args, savedKeys, staging, store>>

\* How the environment answered the calls of the current run.
Externals ==
  <<restoreOutcome, cacheHit # NoPath, failure, extracted, lastVerify.outcome,
    saveOutcome, lastProbe>>

\* The token and the install path run is called with: absent, or the
\* values of the tests.
OptionSamples ==
  [token : {UndefinedInput, TestToken}, installPath : {UndefinedInput, CustomPath}]

TwinHosts ==
  { [platform |-> "linux", arch |-> "x64"], [platform |-> "win32", arch |-> "arm64"] }

\* run called with 'latest' or without a version, with the token and the
\* install path of the tests; the cache service is empty or holds the
\* binary.
TwinInit ==
  /\ host \in TwinHosts
  /\ inputs \in {StringInput(Latest), UndefinedInput}
  /\ options = [token |-> TestToken, installPath |-> CustomPath]
  /\ store \in
       { {},
         { [key  |-> CacheKey(Latest, GetPlatformInfo(host)),
            tree |-> <<File(<<NameOrDefault(GetPlatformInfo(host))>>, TRUE)>>] } }
  /\ job = 1
  /\ phase = "direct"
  /\ pc = "validate"
  /\ twin = NoTwin
  /\ npmToken = UndefinedInput
  /\ FreshRun

\* The call has settled; run is called again with the same version and
\* other options, in an environment like the one the first call started
\* in (the tests reset their mocks before each call).
SecondCall ==
  /\ ~twin.set
  /\ pc \in {"returned", "threw"}
  /\ twin' = [set |-> TRUE, options |-> options, obs |-> Observation, ext |-> Externals]
  /\ \E o \in OptionSamples \ {options} : options' = o
  /\ BeginRun(inputs)
  /\ store' = { e \in store : e.key \notin savedKeys }
  /\ savedKeys' = {}
  /\ staging' = NoStaging
  /\ outputs' = NoOutputs
  /\ pathEnv' = {}
  /\ UNCHANGED <<host, job, phase, rawVersion, stateIsPost, failed, npmToken>>

TwinNext ==
  \/ Validate
  \/ RestoreFromCache
  \/ Download
  \/ Extract
  \/ Resolve
  \/ MakeExecutable
  \/ VerifyInstalled
  \/ SaveToCache
  \/ SetOutputs
  \/ SecondCall

TwinSpec == TwinInit /\ [][TwinNext]_vars

\* ================================================================== claims
\* The positions of the code inside a call of run.
RunPcs ==
  {"validate", "restore", "download", "extract", "resolve", "chmod", "verify",
   "save", "report", "returned", "threw"}

InstallCalls ==
  {"downloadTool", "extractTar", "extractZip", "findBinaryInDir", "chmod",
   "mkdir", "copyFile", "saveCache"}

UnderCache(p) == IsPrefixOf(CachePath, p)

UnderExtracted(p) == IsPrefixOf(ExtractedPath, p)

\* C1: cli-path and cli-version are set only for a path verifyInstallation
\* returned true for earlier in the same run, on the cache-hit path and on
\* the fresh path alike.
C1_OutputsOnlyForVerifiedPath == outputs.set => outputs.path \in verified

C1_Witness ==
  /\ outputs.set
  /\ restoreOutcome = "hit"
  /\ outputs.path = cacheHit
  /\ UnderCache(outputs.path)

\* The shape MAJOR.MINOR.PATCH[-PRERELEASE], read off the text: what
\* precedes the first "-" is three non-empty runs of digits separated by
\* dots, and what follows it, if there is a "-", is a non-empty run of
\* letters, digits, "_", "." and "-".
RECURSIVE FirstIndexOf(_, _, _)
FirstIndexOf(s, c, i) ==
  IF i > Len(s) THEN 0 ELSE IF s[i] = c THEN i ELSE FirstIndexOf(s, c, i + 1)

RECURSIVE SplitOn(_, _)
SplitOn(s, c) ==
  LET i == FirstIndexOf(s, c, 1)
  IN  IF i = 0 THEN <<s>>
      ELSE <<SubSeq(s, 1, i - 1)>> \o SplitOn(SubSeq(s, i + 1, Len(s)), c)

AllIn(s, cls) == \A i \in 1..Len(s) : s[i] \in cls

IsNumber(s) == s # <<>> /\ AllIn(s, Digits)

IsSemverShape(s) ==
  LET dash  == FirstIndexOf(s, "-", 1)
      core  == IF dash = 0 THEN s ELSE SubSeq(s, 1, dash - 1)
      pre   == IF dash = 0 THEN <<>> ELSE SubSeq(s, dash + 1, Len(s))
      parts == SplitOn(core, ".")
  IN  /\ Len(parts) = 3
      /\ \A k \in 1..3 : IsNumber(parts[k])
      /\ dash # 0 => pre # <<>> /\ AllIn(pre, Digits \cup Letters \cup {"_", ".", "-"})

AcceptableVersion(v) ==
  v.type = "string" /\ (v.s = Latest \/ IsSemverShape(v.s))

ValidationErrors == {RequiredError, FormatError}

\* C2: run accepts inputs.version exactly when it is 'latest' or has the
\* shape MAJOR.MINOR.PATCH[-PRERELEASE]; any other value makes it reject
\* with a validation error before any external call is made.
C2_ValidationExact ==
  pc \in RunPcs \ {"validate"} =>
    /\ (err \in ValidationErrors) <=> ~AcceptableVersion(inputs)
    /\ ~AcceptableVersion(inputs) =>
         /\ pc = "threw"
         /\ called = {}
         /\ warnings = {}
         /\ restoreOutcome = "none"

C2_Witness ==
  /\ pc = "threw"
  /\ err = FormatError
  /\ inputs = StringInput(<<"1", ".", "2", ".", "3", ".", "4">>)
  /\ called = {}

\* C3: when the restored binary passes verification, the run makes no
\* download, extraction or cache-save call and ends by reporting the
\* restored binary.
C3_CacheHitShortCircuit ==
  cacheHit # NoPath =>
    /\ called \cap InstallCalls = {}
    /\ pc # "threw"
    /\ err = NoError
    /\ pc # "report" => outputs.set /\ outputs.path = cacheHit

C3_Witness ==
  /\ cacheHit # NoPath
  /\ pc = "returned"
  /\ outputs.path = cacheHit

\* The restore hit, and no restored binary passed the probe (it is missing
\* or its probe failed).
RestoredButRejected ==
  /\ restoreOutcome = "hit"
  /\ \A p \in verified : ~UnderCache(p)

\* C4: when the restore succeeds but the restored binary is missing or
\* fails verification, the run does not report it: it goes on to the
\* download, and a path it reports is the freshly acquired one.
C4_CacheHitRejection ==
  RestoredButRejected =>
    /\ cacheHit = NoPath
    /\ pc = "download" \/ "downloadTool" \in called
    /\ outputs.set =>
         /\ outputs.path = installPath
         /\ UnderExtracted(outputs.path)
         /\ ~UnderCache(outputs.path)

C4_Witness ==
  /\ RestoredButRejected
  /\ FindBinaryInCache(staging, Info) # NoPath
  /\ pc = "returned"
  /\ outputs.set

\* C5: when the download rejects, the extraction fails or the executable
\* is not found, run rejects with 'Failed to install Nucel CLI' in front of
\* the underlying error, and the run does not complete.
C5_AcquisitionFailure ==
  failure \in {"download", "extract", "notfound"} =>
    /\ pc \in {"threw", "idle"}
    /\ Len(err) > 1
    /\ Head(err) = "Failed to install Nucel CLI: "
    /\ Tail(err) = CauseOf(failure)
    /\ saveOutcome = "none"
    /\ installPath = NoPath

C5_Witness ==
  /\ failure = "notfound"
  /\ pc = "threw"
  /\ restoreOutcome = "miss"

\* C6: restoreCache throwing never makes run reject: a warning is logged,
\* nothing counts as restored and the run goes on to the download.
C6_RestoreFailureIsMiss ==
  restoreOutcome = "throw" =>
    /\ "Cache restore failed" \in warnings
    /\ cacheHit = NoPath
    /\ pc = "download" \/ "downloadTool" \in called
    /\ pc = "threw" => failure # "none"

C6_Witness ==
  /\ restoreOutcome = "throw"
  /\ pc = "returned"
  /\ outputs.set

\* C7: a failure of mkdir, copyFile or saveCache in saveToCache never fails
\* the run: a warning is logged and the outputs are set for the freshly
\* acquired binary.
C7_SaveFailureNotFatal ==
  saveOutcome \in {"mkdir", "copyFile", "saveCache"} =>
    /\ "Failed to cache Nucel CLI" \in warnings
    /\ err = NoError
    /\ pc \in {"report", "returned", "idle", "cleanup"}
    /\ pc # "report" =>
         /\ outputs.set
         /\ installPath # NoPath
         /\ outputs.path = installPath

C7_Witness ==
  /\ saveOutcome = "copyFile"
  /\ pc = "returned"
  /\ outputs.set

\* The current run restored an entry that saveToCache stored under the same
\* key in an earlier run (entries are never replaced).
RestoredOwnEntry ==
  /\ pc \in RunPcs
  /\ restoreOutcome = "hit"
  /\ Key \in savedKeys

\* C8 as stated: a later run that restores the entry an earlier run saved
\* takes the cache-hit path and performs no download.
C8_RoundTripAlwaysHits ==
  RestoredOwnEntry =>
    /\ cacheHit # NoPath
    /\ "downloadTool" \notin called
    /\ pc \in {"report", "returned"}

\* C8, amended: a later run that restores the entry an earlier run saved
\* finds the saved binary in the staging directory and probes it; when the
\* probe passes, the run takes the cache-hit path and performs no download.
C8_RoundTripFindsBinary ==
  RestoredOwnEntry =>
    LET found == FindBinaryInCache(staging, Info)
    IN  /\ found # NoPath
        /\ "verify" \in called
        /\ found \in verified =>
             /\ cacheHit = found
             /\ "downloadTool" \notin called
             /\ pc \in {"report", "returned"}

C8_Witness ==
  /\ RestoredOwnEntry
  /\ job = 2
  /\ cacheHit = FindBinaryInCache(staging, Info)
  /\ cacheHit # NoPath
  /\ pc = "returned"

\* C9: after every successful run the directory of the reported cli-path
\* has been added to PATH.
C9_ReportedDirOnPath == outputs.set => Dirname(outputs.path) \in pathEnv

\* The last whitespace-delimited token of s, <<>> when s holds none.
Whitespace == {" ", "\t", "\n"}

RECURSIVE DropTrailing(_, _)
DropTrailing(s, cls) ==
  IF s # <<>> /\ s[Len(s)] \in cls
  THEN DropTrailing(SubSeq(s, 1, Len(s) - 1), cls)
  ELSE s

RECURSIVE TrailingRun(_, _)
TrailingRun(s, cls) ==
  IF s # <<>> /\ s[Len(s)] \notin cls
  THEN TrailingRun(SubSeq(s, 1, Len(s) - 1), cls) \o <<s[Len(s)]>>
  ELSE <<>>

LastToken(s) == TrailingRun(DropTrailing(s, Whitespace), Whitespace)

\* C10: for every probe that exits 0, cli-version is the last
\* whitespace-delimited token of its stdout.
C10_VersionIsLastToken ==
  ( /\ pc = "returned"
    /\ ~lastProbe.thrown
    /\ lastProbe.exitCode = 0
    /\ LastToken(lastProbe.stdout) # <<>> ) =>
  outputs.version = LastToken(lastProbe.stdout)

\* The probe of setOutputs gave no version: it rejected, exited with
\* another code than 0, or printed nothing but white space.
ProbeGaveNothing(probe) ==
  probe.thrown \/ probe.exitCode # 0 \/ DropTrailing(probe.stdout, Whitespace) = <<>>

\* C11: when the reporting probe throws, exits non-zero or prints empty
\* output, run still returns: cli-version is 'unknown', cli-path is the
\* path run resolved, and a run that reached setOutputs never rejects.
C11_ReportingNeverFatal ==
  /\ (pc = "returned" /\ ProbeGaveNothing(lastProbe)) =>
       /\ outputs.set
       /\ outputs.version = Unknown
       /\ outputs.path # NoPath
       /\ outputs.path = ReportedPath(cacheHit, installPath)
       /\ err = NoError
  /\ pc = "threw" => "getExecOutput" \notin called

C11_Witness ==
  /\ phase = "main"
  /\ pc = "returned"
  /\ lastProbe = ProbeResult(0, <<>>)
  /\ outputs.version = Unknown
  /\ outputs.path # NoPath

\* C12: the key of a run is 'nucel-cli-<version>-<os>-<arch>', and no
\* other triple (version, os, arch) has the same key, whatever '-', os
\* name or architecture name the prerelease part of a version holds; a
\* restore that hits restored the entry stored under that key.
C12_CacheKeyInjective ==
  pc = "restore" \/ restoreOutcome # "none" =>
    /\ \A v \in KeySamples, h \in Hosts :
         CacheKey(v, GetPlatformInfo(h)) = Key <=> (v = inputs.s /\ h = host)
    /\ (inputs.s = Latest /\ host = [platform |-> "linux", arch |-> "x64"]) =>
         Key = <<"n", "u", "c", "e", "l", "-", "c", "l", "i", "-",
                 "l", "a", "t", "e", "s", "t", "-",
                 "l", "i", "n", "u", "x", "-", "x", "6", "4">>
    /\ restoreOutcome = "hit" => \E e \in store : e.key = Key /\ staging.tree = e.tree

C12_Witness ==
  /\ restoreOutcome = "hit"
  /\ inputs.s = <<"1", ".", "0", ".", "0", "-", "l", "i", "n", "u", "x", "-", "x", "6", "4">>
  /\ host = [platform |-> "darwin", arch |-> "arm64"]
  /\ Cardinality(store) = Cardinality(KeySamples) * Cardinality(Hosts)

\* The file name the claim gives the release asset of a runner.
AssetFileOf(h) ==
  CASE h = [platform |-> "linux",  arch |-> "x64"]   -> <<"n", "u", "c", "e", "l", "-", "c", "l", "i", "-", "l", "i", "n", "u", "x", "-", "x", "6", "4", ".", "t", "a", "r", ".", "g", "z">>
    [] h = [platform |-> "linux",  arch |-> "arm64"] -> <<"n", "u", "c", "e", "l", "-", "c", "l", "i", "-", "l", "i", "n", "u", "x", "-", "a", "r", "m", "6", "4", ".", "t", "a", "r", ".", "g", "z">>
    [] h = [platform |-> "darwin", arch |-> "x64"]   -> <<"n", "u", "c", "e", "l", "-", "c", "l", "i", "-", "d", "a", "r", "w", "i", "n", "-", "x", "6", "4", ".", "t", "a", "r", ".", "g", "z">>
    [] h = [platform |-> "darwin", arch |-> "arm64"] -> <<"n", "u", "c", "e", "l", "-", "c", "l", "i", "-", "d", "a", "r", "w", "i", "n", "-", "a", "r", "m", "6", "4", ".", "t", "a", "r", ".", "g", "z">>
    [] h = [platform |-> "win32",  arch |-> "x64"]   -> <<"n", "u", "c", "e", "l", "-", "c", "l", "i", "-", "w", "i", "n", "3", "2", "-", "x", "6", "4", ".", "z", "i", "p">>
    [] OTHER                                         -> <<"n", "u", "c", "e", "l", "-", "c", "l", "i", "-", "w", "i", "n", "3", "2", "-", "a", "r", "m", "6", "4", ".", "z", "i", "p">>

\* The release tag the claim gives a version.
TagOf(version) ==
  IF version = Latest THEN <<"c", "l", "i", "-", "v", "0", ".", "1", ".", "9">>
  ELSE <<"c", "l", "i", "-", "v">> \o version

\* C13: on a supported runner the URL given to tc.downloadTool is
\* https://github.com/nucel-cloud/nucel/releases/download/<tag>/nucel-cli-<os>-<arch><ext>,
\* with the tag cli-v0.1.9 for 'latest' and cli-v<version> otherwise, and
\* downloadTool is the only call of the installation that reaches the
\* network: no release is looked up.
C13_DownloadUrl ==
  /\ ("downloadTool" \in called /\ host.platform \in SupportedPlatforms) =>
       downloadUrl = <<"https://github.com/nucel-cloud/nucel/releases/download", "/">>
                       \o TagOf(inputs.s) \o <<"/">> \o AssetFileOf(host)
  /\ "downloadTool" \notin called => downloadUrl = NoUrl
  /\ called \subseteq InstallCalls \cup
        {"restoreCache", "verify", "addPath", "getExecOutput", "setOutput", "rm"}

C13_Witness ==
  /\ pc = "extract"
  /\ inputs.s = Latest
  /\ host = [platform |-> "win32", arch |-> "arm64"]
  /\ downloadUrl = <<"https://github.com/nucel-cloud/nucel/releases/download", "/">>
                     \o <<"c", "l", "i", "-", "v", "0", ".", "1", ".", "9">> \o <<"/">> \o <<"n", "u", "c", "e", "l", "-", "c", "l", "i", "-", "w", "i", "n", "3", "2", "-", "a", "r", "m", "6", "4", ".", "z", "i", "p">>

\* The last n elements of the sequence s.
Suffix(s, n) == SubSeq(s, Len(s) - n + 1, Len(s))

\* C14: linux and darwin map to '.tar.gz' and 'nucel', win32 to '.zip'
\* and 'nucel.exe'; the installation follows the mapping: the URL it
\* downloads ends in the extension, the extractor is the one of the
\* archive format, and the binary it resolves has the executable name.
C14_PlatformMapping ==
  /\ host.platform \in {"linux", "darwin"} =>
       /\ Info.ext = ".tar.gz" /\ Info.binaryName = "nucel"
       /\ "extractZip" \notin called
       /\ downloadUrl # NoUrl => Suffix(downloadUrl, 7) = <<".", "t", "a", "r", ".", "g", "z">>
       /\ binaryPath # NoPath => Basename(binaryPath) = "nucel"
       /\ cacheHit # NoPath => Basename(cacheHit) = "nucel"
  /\ host.platform = "win32" =>
       /\ Info.ext = ".zip" /\ Info.binaryName = "nucel.exe"
       /\ "extractTar" \notin called
       /\ downloadUrl # NoUrl => Suffix(downloadUrl, 4) = <<".", "z", "i", "p">>
       /\ binaryPath # NoPath => Basename(binaryPath) = "nucel.exe"
       /\ cacheHit # NoPath => Basename(cacheHit) = "nucel.exe"

C14_Witness ==
  /\ host.platform = "win32"
  /\ pc = "verify"
  /\ "extractZip" \in called
  /\ Basename(binaryPath) = "nucel.exe"

\* C15: on a runner whose operating system is none of the three supported
\* ones, run rejects before it restores the cache, downloads or extracts
\* anything.
C15_UnsupportedFailsFast ==
  host.platform \notin SupportedPlatforms =>
    called \cap {"restoreCache", "downloadTool", "extractTar", "extractZip"} = {}

\* What findBinaryInDir returned to installNucelCLI, below the root.
Resolved == IF binaryPath = NoPath THEN NoPath ELSE Below(binaryPath)

IsFileAt(tree, rel) ==
  \E i \in 1..Len(tree) : tree[i].p = rel /\ tree[i].kind = "file"

\* The files of the name n anywhere below the root.
FilesNamed(tree, n) ==
  { tree[i].p : i \in { j \in 1..Len(tree) :
                          tree[j].kind = "file" /\ tree[j].p[Len(tree[j].p)] = n } }

\* The common subdirectories that hold a file of the name n.
CommonHits(tree, n) ==
  { k \in 1..Len(CommonDirs) : IsFileAt(tree, <<CommonDirs[k], n>>) }

\* C16: findBinaryInDir returns root/name when that file is present;
\* otherwise the first present of root/bin/name, root/cli/name,
\* root/nucel/name, root/nucel-cli/name; otherwise a file of that name
\* somewhere below the root; and null only when the tree holds no file of
\* that name.
C16_ResolverPriority ==
  ("findBinaryInDir" \in called /\ Info.binaryName # Undefined) =>
    LET n == Info.binaryName
        hits == CommonHits(extracted, n)
    IN  IF IsFileAt(extracted, <<n>>) THEN Resolved = <<n>>
        ELSE IF hits # {}
        THEN \E k \in hits : /\ \A j \in hits : k <= j
                              /\ Resolved = <<CommonDirs[k], n>>
        ELSE IF FilesNamed(extracted, n) # {} THEN Resolved \in FilesNamed(extracted, n)
        ELSE Resolved = NoPath

\* C17: findBinaryInDir never rejects: on a root that is missing, cannot
\* be listed, is empty or holds no binary it returns a path of the tree or
\* null, and the error of a run in which it returned null is the one
\* installNucelCLI throws at line 110.
C17_ResolverNeverThrows ==
  "findBinaryInDir" \in called =>
    /\ failure # "resolver"
    /\ err # InstallError(ResolverCause)
    /\ Resolved # NoPath => \E i \in 1..Len(extracted) : extracted[i].p = Resolved
    /\ Resolved = NoPath =>
         /\ pc = "threw"
         /\ failure = "notfound"
         /\ err = InstallError(NotFoundCause(ExtractedPath))

C17_Witness ==
  /\ extracted = MissingRoot
  /\ "findBinaryInDir" \in called
  /\ Resolved = NoPath
  /\ failure = "notfound"

\* C18: with 'latest' on linux/x64, a cache miss and an archive that
\* extracts to the single file nucel-cli-linux-x64, findBinaryInDir
\* returns that file and the run does not fail for a missing binary.
C18_ScenarioA ==
  ( /\ host = [platform |-> "linux", arch |-> "x64"]
    /\ inputs.s = Latest
    /\ restoreOutcome = "miss"
    /\ extracted = AssetAtRoot
    /\ "findBinaryInDir" \in called ) =>
  /\ binaryPath = Join(ExtractedPath, "nucel-cli-linux-x64")
  /\ failure # "notfound"

\* The message m holds the text part followed by the segments of dir.
NamesDirAfter(m, part, dir) ==
  \E i \in 1..Len(m) :
    /\ m[i] = part
    /\ i + Len(dir) <= Len(m)
    /\ SubSeq(m, i + 1, i + Len(dir)) = dir

C20_VerificationDistinct ==
  failure = "verify" => Head(err) # "Failed to install Nucel CLI: "

\* The message m holds the sequence part somewhere.
Includes(m, part) ==
  \E i \in 0..(Len(m) - Len(part)) : SubSeq(m, i + 1, i + Len(part)) = part

\* C21: the error of a run whose download or extraction failed includes
\* the URL that was given to tc.downloadTool.
C21_ErrorNamesUrl ==
  failure \in {"download", "extract"} =>
    /\ downloadUrl # NoUrl
    /\ Includes(err, downloadUrl)

\* C22: verifyInstallation runs the candidate with the single argument
\* '--version'; it returns true exactly when the process exits with 0,
\* and a spawn failure makes it return false: the caller sees a failed
\* probe, not the error of the spawn.
C22_VerifyIffExitZero ==
  lastVerify.outcome # "none" =>
    /\ lastVerify.args = <<"--version">>
    /\ lastVerify.path \in {Join(CachePath, Info.binaryName), binaryPath}
    /\ lastVerify.path \in verified <=> lastVerify.outcome = "exit0"
    /\ (lastVerify.outcome # "exit0" /\ UnderExtracted(lastVerify.path)) =>
         /\ failure = "verify"
         /\ err = InstallError(VerifyCause)
    /\ (lastVerify.outcome # "exit0" /\ UnderCache(lastVerify.path)) =>
         /\ cacheHit = NoPath
         /\ "Cache restore failed" \notin warnings \/ restoreOutcome = "throw"

C22_Witness ==
  /\ lastVerify.outcome = "throw"
  /\ UnderExtracted(lastVerify.path)
  /\ failure = "verify"
  /\ pc = "threw"

\* C23: cleanup removes <cwd>/nucel-cache and never raises: when fs.rm
\* fails it logs the warning 'Cleanup failed' and returns, and it returns
\* as well when the staging directory was never created; the post
\* invocation ends without an error given to core.setFailed.
C23_CleanupNeverRaises ==
  "rm" \in called =>
    /\ pc = "idle"
    /\ phase = "idle"
    /\ failed = NoError
    /\ "Cleanup failed" \notin warnings => staging = NoStaging

C23_Witness ==
  /\ "rm" \in called
  /\ "Cleanup failed" \in warnings
  /\ staging.exists
  /\ failed = NoError

\* C24 as stated: after cleanup has run twice in a row the staging
\* directory is absent and the second call has reported no failure.
C24_SecondCleanupSilent ==
  (job >= 2 /\ pc = "idle") =>
    /\ staging = NoStaging
    /\ "Cleanup failed" \notin warnings
    /\ failed = NoError

\* C24, amended: a call of cleanup that logs no failure leaves the
\* staging directory absent; a call that finds it absent changes nothing,
\* logs no failure and does not raise; no call changes anything but the
\* staging directory.
C24_CleanupIdempotent ==
  [][pc = "cleanup" =>
       /\ pc' = "idle"
       /\ failed' = NoError
       /\ "Cleanup failed" \notin warnings' => staging' = NoStaging
       /\ ~staging.exists => (staging' = staging /\ "Cleanup failed" \notin warnings')
       /\ UNCHANGED <<store, outputs, pathEnv, extracted>>]_vars

C24_Witness ==
  /\ job = 2
  /\ pc = "idle"
  /\ "rm" \in called
  /\ staging = NoStaging
  /\ warnings = {}

\* C25: an invocation of the entry point that ends with an error sets the
\* status of the action to failed with the message of that error, and the
\* status is failed only then: after the main invocation it is failed
\* exactly when the state isPost was not saved, and it only ever changes
\* to the error run rejected with or to the error of getContext.
C25_NeverSilentlySucceeds ==
  /\ [](phase = "between" => (failed # NoError <=> ~stateIsPost))
  /\ [][(phase \in {"main", "post"} /\ pc = "threw" /\ pc' = "idle") =>
          (failed' = err /\ err # NoError)]_vars
  /\ [][(failed' # failed /\ failed' # NoError) =>
          \/ pc = "threw" /\ failed' = err
          \/ pc = "idle" /\ pc' = "idle" /\ failed' = ContextError]_vars

C25_Witness ==
  /\ phase = "between"
  /\ ~stateIsPost
  /\ failure = "download"
  /\ failed = InstallError(DownloadCause)

\* C26: the post invocation of a job executes cleanup and nothing of the
\* install pipeline, whether the main invocation succeeded or failed.
C26_PostOnlyCleansUp ==
  phase = "post" => pc = "cleanup"

\* The calls of the extractors.
ExtractCalls == {"extractTar", "extractZip"}

\* C27: the steps of a run follow one another, each one started after the
\* one before it has completed: restore, download, extraction, resolution,
\* verification, and only after a verification that succeeded the cache
\* save and the outputs; the code is at one position at a time.
C27_StepsSequential ==
  /\ "downloadTool" \in called =>
       /\ "restoreCache" \in called
       /\ restoreOutcome # "none" /\ cacheHit = NoPath
  /\ called \cap ExtractCalls # {} =>
       /\ "downloadTool" \in called
       /\ failure # "download"
  /\ "findBinaryInDir" \in called =>
       /\ called \cap ExtractCalls # {}
       /\ failure # "extract"
  /\ UnderExtracted(lastVerify.path) =>
       /\ "findBinaryInDir" \in called
       /\ failure \notin {"notfound", "chmod"}
  /\ called \cap {"mkdir", "copyFile", "saveCache"} # {} =>
       /\ lastVerify = VerifyCall(installPath, "exit0")
       /\ installPath \in verified
  /\ "setOutput" \in called =>
       /\ outputs.path \in verified
       /\ cacheHit = NoPath => saveOutcome # "none"
  /\ pc = "download" => called = {"restoreCache"} \cup (called \cap {"verify"})
  /\ pc = "report" => "getExecOutput" \notin called

C27_Witness ==
  /\ pc = "returned"
  /\ {"restoreCache", "downloadTool", "extractTar", "findBinaryInDir", "chmod",
      "verify", "addPath", "mkdir", "copyFile", "saveCache", "getExecOutput",
      "setOutput"} \subseteq called

\* The positions of a run that has not ended.
Running == RunPcs \ {"returned", "threw"}

\* The number of steps a run at the position p can still make.
Rank(p) ==
  CASE p = "validate" -> 9
    [] p = "restore"  -> 8
    [] p = "download" -> 7
    [] p = "extract"  -> 6
    [] p = "resolve"  -> 5
    [] p = "chmod"    -> 4
    [] p = "verify"   -> 3
    [] p = "save"     -> 2
    [] p = "report"   -> 1
    [] OTHER          -> 0

\* A step from the position p to the position q brings the run closer to
\* its end.
Closer(p, q) == q \in RunPcs /\ Rank(q) < Rank(p)

\* A step of run.
RunStep ==
  \/ Validate
  \/ RestoreFromCache
  \/ Download
  \/ Extract
  \/ Resolve
  \/ MakeExecutable
  \/ VerifyInstalled
  \/ SaveToCache
  \/ SetOutputs

\* C28: a run that has not ended can always make a step, and every step
\* brings it closer to its end, so no position is visited twice (one
\* download, one probe of a restored and one of an acquired binary); it
\* ends having reported the outputs or with exactly one of a validation,
\* an acquisition or a verification error; a failed probe of an acquired
\* binary ends the run.
C28_RunTerminates ==
  /\ [](pc \in Running => ENABLED RunStep)
  /\ [][(pc \in Running) => Closer(pc, pc')]_vars
  /\ [][(lastVerify' # lastVerify /\ pc \in Running) => pc \in {"restore", "verify"}]_vars
  /\ [](pc = "returned" => (outputs.set /\ err = NoError /\ failure = "none"))
  /\ [](pc = "threw" =>
          \/ /\ err \in {RequiredError, FormatError}
             /\ failure = "none" /\ called = {}
          \/ /\ failure \in {"download", "extract", "notfound", "chmod"}
             /\ err = InstallError(CauseOf(failure))
          \/ /\ failure = "verify"
             /\ err = InstallError(VerifyCause))
  /\ [](failure = "verify" => pc \in {"threw", "idle"})

C28_Witness ==
  /\ pc = "threw"
  /\ failure = "verify"
  /\ restoreOutcome = "hit"
  /\ FindBinaryInCache(staging, Info) # NoPath
  /\ UnderExtracted(lastVerify.path)

\* What the current call logged, set as an output or threw.
Messages ==
  infos \cup { <<w>> : w \in warnings }
        \cup {err, failed, downloadUrl, outputs.version, outputs.path}

\* Both calls have settled and the environment answered them alike.
SettledAlike ==
  /\ twin.set
  /\ pc \in {"returned", "threw"}
  /\ Externals = twin.ext

\* C29: the token is never logged or exposed: no message, output or error
\* of a call holds the token, and two calls that differ only in the token
\* log the same messages, set the same outputs and end with the same
\* error.
C29_TokenNeverExposed ==
  /\ options.token.s # <<>> =>
       \A m \in Messages : ~Includes(m, options.token.s)
  /\ (SettledAlike /\ options.installPath = twin.options.installPath) =>
       Observation = twin.obs

C29_Witness ==
  /\ SettledAlike
  /\ pc = "returned"
  /\ options.installPath = twin.options.installPath
  /\ twin.options.token = TestToken
  /\ options.token = UndefinedInput
  /\ Cardinality(infos) = 3
  /\ outputs.set

\* What the current call gave to the calls it made.
Arguments ==
  pathEnv \cup verified
          \cup {downloadUrl, lastVerify.path, outputs.path, cacheHit, installPath, binaryPath}
          \cup { e.p : e \in { staging.tree[i] : i \in 1..Len(staging.tree) } }

C31_TokenPassedThrough ==
  (pc = "returned" /\ options.token.type = "string" /\ options.token.s # <<>>) =>
    npmToken = options.token

\* C32: the entry point calls run with the version 'latest' when the
\* version input is absent or empty, and with the input as it is when it is
\* not empty.
C32_VersionDefault ==
  (phase \in {"main", "post"} /\ pc \in RunPcs) =>
    /\ rawVersion = <<>> => inputs = StringInput(Latest)
    /\ rawVersion # <<>> => inputs = StringInput(rawVersion)

C32_Witness ==
  /\ phase = "main"
  /\ rawVersion = <<>>
  /\ inputs = StringInput(Latest)
  /\ pc = "returned"
  /\ downloadUrl = GetDownloadUrl(Latest, Info)

\* Every directory above the entry at rel can be listed.
Reachable(tree, rel) ==
  \A k \in 0..(Len(rel) - 1) : Readable(tree, SubSeq(rel, 1, k))

\* The tree holds one file of the name n, without the execute permission,
\* below directories that can be listed.
OnlyCopyLacksX(tree, n) ==
  /\ Cardinality(FilesNamed(tree, n)) = 1
  /\ \A f \in FilesNamed(tree, n) :
       /\ Reachable(tree, f)
       /\ \E i \in 1..Len(tree) : tree[i].p = f /\ tree[i].kind = "file" /\ ~tree[i].x

\* findBinaryInDir has returned and neither chmod nor the probe has run.
JustResolved ==
  /\ "findBinaryInDir" \in called
  /\ "chmod" \notin called
  /\ lastVerify = NoVerifyCall

\* C33: on POSIX the located binary is made executable before the verifier
\* runs it, chmod is never called on Windows, and an archive whose only
\* copy of the binary lacks the execute permission is still located (and
\* then made executable and verified).
C33_ChmodBeforeUse ==
  /\ Info.platform = "win32" => "chmod" \notin called
  /\ (Info.platform # "win32" /\ lastVerify # NoVerifyCall) =>
       /\ "chmod" \in called
       /\ lastVerify.path = binaryPath
       /\ FileExists(extracted, Below(binaryPath), Info.platform)
  /\ (Info.platform # "win32" /\ JustResolved
        /\ OnlyCopyLacksX(extracted, Info.binaryName)) =>
       /\ Resolved \in FilesNamed(extracted, Info.binaryName)
       /\ pc = "chmod"

\* C34: every path findBinaryInDir returns is the path of a regular file,
\* never of a directory.
C34_ResolverReturnsFile ==
  ("findBinaryInDir" \in called /\ Resolved # NoPath) => IsFileAt(extracted, Resolved)

\* C35: a run that rejects leaves no success artefact: neither output is
\* set, saveToCache has not been called and nothing was added to PATH.
C35_NoArtefactsOnError ==
  pc = "threw" =>
    /\ ~outputs.set
    /\ "setOutput" \notin called
    /\ saveOutcome = "none"
    /\ called \cap {"mkdir", "copyFile", "saveCache"} = {}
    /\ "addPath" \notin called
    /\ pathEnv = {}

C35_Witness ==
  /\ pc = "threw"
  /\ failure = "verify"
  /\ "chmod" \in called
  /\ ~outputs.set

\* The files of the name n below directories that can all be listed.
ReachableFiles(tree, n) == { f \in FilesNamed(tree, n) : Reachable(tree, f) }

\* A directory of the tree cannot be listed.
HasUnreadableDir(tree) ==
  \E i \in 1..Len(tree) : tree[i].kind = "dir" /\ tree[i].p # <<>> /\ ~tree[i].r

\* C36: the recursive search ignores the error of a directory it cannot
\* list and goes on with the siblings: it finds a file of the name that
\* lies below directories it can list, and findBinaryInDir returns that
\* file when the root and the common subdirectories do not hold it.
C36_SearchToleratesUnreadable ==
  ("findBinaryInDir" \in called /\ Info.binaryName # Undefined) =>
    LET n == Info.binaryName
        found == FindBinaryRecursive(extracted, <<>>, n)
    IN  /\ ReachableFiles(extracted, n) # {} => found \in ReachableFiles(extracted, n)
        /\ ReachableFiles(extracted, n) = {} => found = NoPath
        /\ (/\ ~FileExists(extracted, <<n>>, Info.platform)
            /\ FirstCommonDir(extracted, n, Info.platform, 1) = 0) => Resolved = found

C36_Witness ==
  /\ "findBinaryInDir" \in called
  /\ HasUnreadableDir(extracted)
  /\ Resolved = <<"usr", Info.binaryName>>
  /\ pc = "chmod"

\* C37: the state isPost is saved only when run has resolved: an
\* invocation in which run rejects does not save it, and a post invocation
\* that finds it saved calls cleanup only, neither run nor saveState.
C37_FlagOnlyAfterSuccess ==
  /\ [][(stateIsPost' /\ ~stateIsPost) => (pc = "returned" /\ phase \in {"main", "post"})]_vars
  /\ [][(pc = "threw" /\ phase \in {"main", "post"} /\ pc' = "idle") =>
         (~stateIsPost' /\ failed' = err)]_vars
  /\ [][(phase = "between" /\ stateIsPost /\ phase' # phase) =>
         (phase' = "post" /\ pc' = "cleanup" /\ called' = called
            /\ stateIsPost' = stateIsPost)]_vars
  /\ [][(pc = "cleanup") =>
         (called' = called \cup {"rm"} /\ stateIsPost' = stateIsPost /\ pc' = "idle")]_vars
  /\ []((phase = "post" /\ stateIsPost) => pc = "cleanup")

C37_Witness ==
  /\ phase = "between"
  /\ ~stateIsPost
  /\ failure = "download"
  /\ failed = InstallError(DownloadCause)

\* C38: an acquisition uses one extractor, chosen by the archive
\* extension of the platform: extractZip on the downloaded file for
\* '.zip', extractTar on the downloaded file with the flags 'xz' for any
\* other extension; no extractor is called when the download failed.
C38_OneExtractor ==
  /\ Cardinality(called \cap ExtractCalls) <= 1
  /\ extractCall # NoExtractCall =>
       /\ called \cap ExtractCalls = {extractCall.tool}
       /\ "downloadTool" \in called
       /\ extractCall.file = DownloadPath
       /\ IF Info.ext = ".zip"
          THEN extractCall.tool = "extractZip" /\ extractCall.flags = <<>>
          ELSE extractCall.tool = "extractTar" /\ extractCall.flags = <<"xz">>
  /\ extractCall = NoExtractCall => called \cap ExtractCalls = {}
  /\ failure = "download" => extractCall = NoExtractCall
  /\ pc \in {"resolve", "chmod", "verify", "save"} => extractCall # NoExtractCall

C38_Witness ==
  /\ Info.ext = ".zip"
  /\ extractCall = [tool |-> "extractZip", file |-> DownloadPath, flags |-> <<>>]
  /\ pc = "returned"
  /\ restoreOutcome = "miss"

====
